---- MODULE Spec2Model ----
(***************************************************************************)
(* Model of src/stock_sceening/find_daily_limit_up.py: the limit-up        *)
(* screening of a panel of daily bars.                                     *)
(*                                                                         *)
(* Representation.                                                         *)
(*  - A str is the sequence of its characters, "688001" being              *)
(*    <<"6","8","8","0","0","1">>.                                         *)
(*  - A price is an integer number of cents (10.00 is 1000); a limit rate  *)
(*    is an integer number of percent (0.20 is 20).                        *)
(*  - A float column that may hold NaN holds NaN (the empty sequence) or   *)
(*    <<v>>; every comparison with NaN is false, as in IEEE 754.           *)
(*  - A Timestamp is the integer yyyymmdd; a date string 'YYYYMMDD' is the  *)
(*    sequence of its digits and to_datetime parses it.                    *)
(*  - A DataFrame is the sequence of its rows, each row a record that      *)
(*    carries its index label.                                             *)
(*  - The limit types are written SEALED and BROKEN for the source's two   *)
(*    Chinese labels, and zt_price for its limit-price result column.      *)
(***************************************************************************)
EXTENDS Integers, Sequences, FiniteSets, TLC

VARIABLES
    columns,        \* df.columns of the loaded panel
    date_dtype,     \* dtype of df['trade_date']: "object" (str) or "datetime64"
    df,             \* the loaded panel, rows in file order
    pc,             \* "loaded", "rejected" (main returned at line 95), "reported", "queried"
    tie_up,         \* how round() resolves each exact half it meets (see RoundCents)
    stock_data,     \* identify_limit_stocks' frame after calculate_limit_price (line 53)
    limit_stocks,   \* the event table returned by identify_limit_stocks
    daily_stats,    \* main's daily summary (lines 106-118)
    written,        \* the CSV files main has written
    target_date,    \* analyze_specific_date's argument
    row,            \* calc_limit_price's argument, when it is applied on its own
    row_out         \* what calc_limit_price computed for row

vars == <<columns, date_dtype, df, pc, tie_up, stock_data, limit_stocks,
          daily_stats, written, target_date, row, row_out>>

-----------------------------------------------------------------------------
(* Bounds of the model. *)

MaxRows == 3            \* rows of a panel
MaxSummaryRows == 4     \* rows of a panel of the two-instrument universe
MaxIdLen == 3           \* characters of an identifier given to get_stock_type

-----------------------------------------------------------------------------
(* Strings. *)

\* The characters of the model in ASCII order.
CharOrder == <<"0", "1", "2", "3", "4", "5", "6", "7", "8", "9", "S", "T", "s", "t">>

\* the rank of each character in that order
Ord ==
    [c \in {CharOrder[i] : i \in 1..Len(CharOrder)} |->
        CHOOSE i \in 1..Len(CharOrder) : CharOrder[i] = c]

Chars == {CharOrder[i] : i \in 1..Len(CharOrder)}

\* str < str
RECURSIVE StrLessFrom(_, _, _)
StrLessFrom(a, b, i) ==
    IF i > Len(b) THEN FALSE
    ELSE IF i > Len(a) THEN TRUE
    ELSE IF a[i] # b[i] THEN Ord[a[i]] < Ord[b[i]]
    ELSE StrLessFrom(a, b, i + 1)

StrLess(a, b) == StrLessFrom(a, b, 1)

\* str.startswith(prefix)
startswith(s, prefix) ==
    /\ Len(s) >= Len(prefix)
    /\ SubSeq(s, 1, Len(prefix)) = prefix

\* str.startswith(tuple of prefixes)
startswith_any(s, prefixes) == \E p \in prefixes : startswith(s, p)

\* str.lower() on one character
Lower(c) == IF c = "S" THEN "s" ELSE IF c = "T" THEN "t" ELSE c

\* Faulty variant of contains_ST: the match is case-sensitive.
contains_ST_cased(s) == \E i \in 1..(Len(s) - 1) : s[i] = "S" /\ s[i + 1] = "T"

\* Series.str.contains('ST', case=False) on one value
contains_ST(s) ==
    \E i \in 1..(Len(s) - 1) : Lower(s[i]) = "s" /\ Lower(s[i + 1]) = "t"

-----------------------------------------------------------------------------
(* Floats and dates. *)

NaN == <<>>

isna(x) == x = NaN

\* a >= b for a number a and a float-or-NaN b
Ge(a, b) == ~isna(b) /\ a >= b[1]

\* pd.to_datetime on a 'YYYYMMDD' string
RECURSIVE ParseDigits(_, _)
ParseDigits(s, acc) ==
    IF s = <<>> THEN acc
    ELSE ParseDigits(Tail(s), acc * 10 + (Ord[Head(s)] - 1))

to_datetime(s) == ParseDigits(s, 0)

\* round(x, 2) for x = n / 10000 (n >= 0), in cents.  The product prev_close *
\* (1 + limit_rate) is a binary float: when its decimal value lies strictly
\* between two cents round() returns the nearer one, and when it is an exact
\* half the float is a hair above or below it, so either neighbour can come
\* out (round(10.95 * 1.1, 2) is 12.04 and round(10.05 * 1.1, 2) is 11.06).
\* up says which one does.
RoundCents(n, up) ==
    LET q == n \div 100
        r == n % 100
    IN  IF r < 50 THEN q
        ELSE IF r > 50 THEN q + 1
        ELSE IF up THEN q + 1 ELSE q

-----------------------------------------------------------------------------
(* calculate_limit_price (lines 5-43). *)

KCB_PREFIXES == {<<"6", "8", "8">>, <<"6", "8", "9">>}

CYB_PREFIX == <<"3", "0", "0">>

BSE_PREFIXES ==
    {<<"4", "3", "0">>,
     <<"8", "3", "1">>, <<"8", "3", "2">>, <<"8", "3", "3">>, <<"8", "3", "4">>,
     <<"8", "3", "5">>, <<"8", "3", "6">>, <<"8", "3", "7">>, <<"8", "3", "8">>,
     <<"8", "3", "9">>,
     <<"8", "7", "0">>, <<"8", "7", "1">>, <<"8", "7", "2">>, <<"8", "7", "3">>,
     <<"8", "7", "4">>}

\* Faulty variant of get_stock_type: the prefix 689 is forgotten.
get_stock_type_no689(ts_code) ==
    IF startswith(ts_code, <<"6", "8", "8">>) THEN "kcb"
    ELSE IF startswith(ts_code, CYB_PREFIX) THEN "cyb"
    ELSE IF startswith_any(ts_code, BSE_PREFIXES) THEN "bse"
    ELSE "main"

get_stock_type(ts_code) ==
    IF startswith_any(ts_code, KCB_PREFIXES) THEN "kcb"
    ELSE IF startswith(ts_code, CYB_PREFIX) THEN "cyb"
    ELSE IF startswith_any(ts_code, BSE_PREFIXES) THEN "bse"
    ELSE "main"

\* lines 31-36, in percent
limit_rate_of(stock_type) ==
    IF stock_type \in {"kcb", "cyb"} THEN 20
    ELSE IF stock_type = "bse" THEN 30
    ELSE 10

\* The (prev_close, limit_rate) pairs whose product is an exact half of a cent.
IsTie(prev_close, limit_rate) == (prev_close * (100 + limit_rate)) % 100 = 50

\* those among the pairs (close, limit rate of the instrument) of rows
TiePoints(rows) ==
    {t \in {<<r.close, limit_rate_of(get_stock_type(r.ts_code))>> : r \in rows} :
        IsTie(t[1], t[2])}

\* The ways round() can resolve the halves that the closes of a frame can produce.
TieChoices(frame) == [TiePoints({frame[i] : i \in 1..Len(frame)}) -> BOOLEAN]

\* calc_limit_price (lines 25-40); r has ts_code and prev_close
calc_limit_price(r, tie) ==
    IF isna(r.prev_close) THEN NaN
    ELSE LET stock_type == get_stock_type(r.ts_code)
             limit_rate == limit_rate_of(stock_type)
             prev == r.prev_close[1]
         IN  <<RoundCents(prev * (100 + limit_rate),
                          IsTie(prev, limit_rate) /\ tie[<<prev, limit_rate>>])>>

\* the sort key of sort_values(['ts_code', 'trade_date'])
KeyLess(a, b) ==
    IF a.ts_code = b.ts_code THEN a.trade_date < b.trade_date
    ELSE StrLess(a.ts_code, b.ts_code)

\* Faulty variant of sort_values: the rows stay in the order of the panel.
sort_values_none(frame) == frame

\* DataFrame.sort_values on two columns: a stable sort (rows with equal keys keep
\* their order)
sort_values(frame) ==
    LET n == Len(frame)
        Before(j, i) ==
            \/ KeyLess(frame[j], frame[i])
            \/ ~KeyLess(frame[i], frame[j]) /\ j < i
        rank == [i \in 1..n |-> Cardinality({j \in 1..n : Before(j, i)}) + 1]
    IN  [k \in 1..n |-> frame[CHOOSE i \in 1..n : rank[i] = k]]

\* Faulty variant of groupby_shift: the shift is not grouped by ts_code.
groupby_shift_ungrouped(frame, k) == IF k = 1 THEN NaN ELSE <<frame[k - 1].close>>

\* groupby('ts_code')['close'].shift(1): for the row at position k, the close of the
\* row before it in its group
groupby_shift(frame, k) ==
    LET same == {j \in 1..(k - 1) : frame[j].ts_code = frame[k].ts_code}
    IN  IF same = {} THEN NaN
        ELSE <<frame[CHOOSE j \in same : \A x \in same : x <= j].close>>

\* line 22: the row with its prev_close column
with_prev_close(r, prev) ==
    [index |-> r.index, ts_code |-> r.ts_code, trade_date |-> r.trade_date,
     open |-> r.open, high |-> r.high, low |-> r.low, close |-> r.close,
     prev_close |-> prev]

\* line 42: the row with its limit_price column
with_limit_price(r, limit) ==
    [index |-> r.index, ts_code |-> r.ts_code, trade_date |-> r.trade_date,
     open |-> r.open, high |-> r.high, low |-> r.low, close |-> r.close,
     prev_close |-> r.prev_close, limit_price |-> limit]

calculate_limit_price(frame, tie) ==
    LET sorted == sort_values(frame)
        priced(k) ==
            LET r == with_prev_close(sorted[k], groupby_shift(sorted, k))
            IN  with_limit_price(r, calc_limit_price(r, tie))
    IN  [k \in 1..Len(sorted) |-> priced(k)]

-----------------------------------------------------------------------------
(* identify_limit_stocks (lines 45-77). *)

\* line 50
filter_ST(frame) ==
    LET keep(r) == ~contains_ST(r.ts_code)
    IN  SelectSeq(frame, keep)

\* lines 56-59
limit_conditions(r) == Ge(r.high, r.limit_price) \/ Ge(r.close, r.limit_price)

\* Faulty variant of classify_limit: > for >=.
classify_limit_strict(r) ==
    IF ~isna(r.limit_price) /\ r.close > r.limit_price[1] THEN "SEALED" ELSE "BROKEN"

\* lines 64-68
classify_limit(r) == IF Ge(r.close, r.limit_price) THEN "SEALED" ELSE "BROKEN"

\* lines 70-77: a row of the result
result_row(r) ==
    [index |-> r.index, ts_code |-> r.ts_code, trade_date |-> r.trade_date,
     open |-> r.open, close |-> r.close, high |-> r.high, low |-> r.low,
     zt_price |-> r.limit_price, limit_type |-> classify_limit(r)]

\* lines 61-77, from the frame with limit prices; apply() on a frame without rows
\* gives a column without rows
select_limit_stocks(data) ==
    LET hit == SelectSeq(data, limit_conditions)
    IN  [k \in 1..Len(hit) |-> result_row(hit[k])]

\* identify_limit_stocks, with the frame it classifies (line 53) beside its result
identify_run(frame, tie) ==
    LET data == calculate_limit_price(filter_ST(frame), tie)
    IN  [stock_data |-> data, result |-> select_limit_stocks(data)]

identify_limit_stocks(frame, tie) == identify_run(frame, tie).result

-----------------------------------------------------------------------------
(* main (lines 79-131). *)

required_columns == {"ts_code", "trade_date", "open", "close", "high", "low"}

\* line 99: pd.to_datetime on the trade_date column
convert_dates(frame) ==
    [k \in 1..Len(frame) |->
        [index |-> frame[k].index, ts_code |-> frame[k].ts_code,
         trade_date |-> to_datetime(frame[k].trade_date),
         open |-> frame[k].open, high |-> frame[k].high,
         low |-> frame[k].low, close |-> frame[k].close]]

\* the elements of a set of Timestamps in ascending order
Ascending(S) ==
    [k \in 1..Cardinality(S) |->
        CHOOSE d \in S : Cardinality({e \in S : e < d}) = k - 1]

\* line 106: groupby(['trade_date', 'limit_type']).size().unstack(fill_value=0), one
\* row per date that has an event, one column per limit type that occurs at all
unstack_counts(events) ==
    LET dates == Ascending({events[i].trade_date : i \in 1..Len(events)})
        types == {events[i].limit_type : i \in 1..Len(events)}
        size(d, t) == Cardinality({i \in 1..Len(events) :
                          events[i].trade_date = d /\ events[i].limit_type = t})
    IN  [k \in 1..Len(dates) |->
            [trade_date |-> dates[k], counts |-> [t \in types |-> size(dates[k], t)]]]

\* lines 109-112: a column that is missing is added, filled with 0
ensure_column(counts, name) ==
    IF name \notin DOMAIN counts THEN counts @@ (name :> 0) ELSE counts

\* Faulty variant of build_daily_stats: the two columns are summed where they
\* exist and a missing one is not added.
build_daily_stats_unfilled(events) ==
    LET stats == unstack_counts(events)
        count(c, t) == IF t \in DOMAIN c THEN c[t] ELSE 0
        total(c) == c @@ ("total" :> (count(c, "SEALED") + count(c, "BROKEN")))
    IN  [k \in 1..Len(stats) |->
            [trade_date |-> stats[k].trade_date, counts |-> total(stats[k].counts)]]

\* lines 106-118; the column total is the source's sum column
build_daily_stats(events) ==
    LET stats == unstack_counts(events)
        both(c) == ensure_column(ensure_column(c, "SEALED"), "BROKEN")
        total(c) == c @@ ("total" :> (c["SEALED"] + c["BROKEN"]))
    IN  [k \in 1..Len(stats) |->
            [trade_date |-> stats[k].trade_date, counts |-> total(both(stats[k].counts))]]

Main ==
    /\ pc = "loaded"
    /\ IF ~(required_columns \subseteq columns)
       THEN /\ pc' = "rejected"
            /\ UNCHANGED <<df, date_dtype, tie_up, stock_data, limit_stocks,
                           daily_stats, written>>
       ELSE LET frame == IF date_dtype # "datetime64" THEN convert_dates(df) ELSE df
            IN  \E tie \in TieChoices(frame) :
                  LET run == identify_run(frame, tie)
                  IN  /\ df' = frame
                      /\ date_dtype' = "datetime64"
                      /\ tie_up' = tie
                      /\ stock_data' = run.stock_data
                      /\ limit_stocks' = run.result
                      /\ daily_stats' = build_daily_stats(run.result)
                      /\ written' = {"daily_limit_statistics.csv",
                                     "detailed_limit_stocks.csv"}
                      /\ pc' = "reported"
    /\ UNCHANGED <<columns, target_date, row, row_out>>

-----------------------------------------------------------------------------
(* analyze_specific_date (lines 134-148); t is [type, value]. *)

AnalyzeSpecificDate(t) ==
    /\ pc = "loaded"
    /\ LET target == IF t.type = "str" THEN to_datetime(t.value) ELSE t.value
           \* a str never equals a Timestamp
           on_date(r) == date_dtype = "datetime64" /\ r.trade_date = target
           daily_data == SelectSeq(df, on_date)
       IN  \E tie \in TieChoices(daily_data) :
             LET run == identify_run(daily_data, tie)
             IN  /\ target_date' = <<target>>
                 /\ tie_up' = tie
                 /\ stock_data' = run.stock_data
                 /\ limit_stocks' = run.result
                 /\ pc' = "queried"
    /\ UNCHANGED <<columns, date_dtype, df, daily_stats, written, row, row_out>>

-----------------------------------------------------------------------------
(* calc_limit_price applied to one row. *)

CalcLimitPrice ==
    /\ pc = "row"
    /\ \E tie \in [TiePoints({[ts_code |-> row.ts_code, close |-> row.prev_close[1]]})
                      -> BOOLEAN] :
         /\ tie_up' = tie
         /\ row_out' = [stock_type |-> get_stock_type(row.ts_code),
                        limit_rate |-> limit_rate_of(get_stock_type(row.ts_code)),
                        limit_price |-> calc_limit_price(row, tie)]
    /\ pc' = "priced"
    /\ UNCHANGED <<columns, date_dtype, df, stock_data, limit_stocks, daily_stats,
                   written, target_date, row>>

-----------------------------------------------------------------------------
(* The inputs. *)

\* two trade dates as 'YYYYMMDD' strings and as Timestamps, and a third
DateStrings ==
    {<<"2", "0", "2", "4", "0", "1", "0", "2">>, <<"2", "0", "2", "4", "0", "1", "0", "3">>}

Dates == {to_datetime(s) : s \in DateStrings}

MoreDateStrings == DateStrings \cup {<<"2", "0", "2", "4", "0", "1", "0", "4">>}

MoreDates == {to_datetime(s) : s \in MoreDateStrings}

MAIN_CODE == <<"6", "0", "0", "0", "0", "0">>
STAR_CODE == <<"6", "8", "8", "0", "0", "1">>
NEEQ_CODE == <<"8", "3", "1", "0", "1", "0">>
ST_CODE == <<"6", "0", "0", "s", "T", "1">>

Bar(o, h, l, c) == [open |-> o, high |-> h, low |-> l, close |-> c]

\* A flat day at 10.00, and a day that touches 12.00 and closes at 11.00: after a
\* close of 10.00 it is sealed at 10%, broken at 20%, no event at 30%.
CoarseBars == {Bar(1000, 1000, 1000, 1000), Bar(1000, 1200, 1000, 1100)}

\* The days around the 10% limit of a close of 10.00 (11.00) and of 9.95 (10.945,
\* an exact half), and a day whose high is below its close.
FineBars ==
    {Bar(1000, 1000, 1000, 1000), Bar(995, 995, 995, 995),
     Bar(1000, 1100, 1000, 1100), Bar(1000, 1100, 1000, 1095),
     Bar(1000, 1099, 1000, 1090), Bar(1000, 1094, 1000, 1094),
     Bar(1000, 1050, 1000, 1100)}

\* A day of zero prices: no valid bar, but a row main accepts.
InvalidBars == {Bar(0, 0, 0, 0)}

RowsOf(codes, dates, bars) ==
    {[ts_code |-> c, trade_date |-> d, open |-> b.open, high |-> b.high,
      low |-> b.low, close |-> b.close] : c \in codes, d \in dates, b \in bars}

\* pd.read_pickle: the rows get the index labels 0, 1, ...
Frame(rows) ==
    [k \in 1..Len(rows) |->
        [index |-> k - 1, ts_code |-> rows[k].ts_code,
         trade_date |-> rows[k].trade_date,
         open |-> rows[k].open, high |-> rows[k].high,
         low |-> rows[k].low, close |-> rows[k].close]]

Panels(rows, n) == {Frame(s) : s \in UNION {[1..k -> rows] : k \in 0..n}}

\* the strings of at most n characters
Identifiers(n) == UNION {[1..k -> Chars] : k \in 0..n}

NoRun ==
    /\ tie_up = <<>>
    /\ stock_data = <<>>
    /\ limit_stocks = <<>>
    /\ daily_stats = <<>>
    /\ written = {}
    /\ target_date = <<>>
    /\ row_out = <<>>

\* Panels of four instruments, one of them an ST one.
Init ==
    /\ columns = required_columns
    /\ date_dtype = "datetime64"
    /\ df \in Panels(RowsOf({MAIN_CODE, STAR_CODE, NEEQ_CODE, ST_CODE}, Dates, CoarseBars),
                     MaxRows)
    /\ pc = "loaded"
    /\ row = <<>>
    /\ NoRun

\* Panels of one main-board instrument with fine-grained bars.
InitBars ==
    /\ columns = required_columns
    /\ date_dtype = "datetime64"
    /\ df \in Panels(RowsOf({MAIN_CODE}, Dates, FineBars), MaxRows)
    /\ pc = "loaded"
    /\ row = <<>>
    /\ NoRun

\* The same with rows of invalid prices; the panel may lack a required column.
InitLoad ==
    /\ columns \in {required_columns, required_columns \ {"low"}}
    /\ date_dtype = "datetime64"
    /\ df \in Panels(RowsOf({MAIN_CODE}, Dates, FineBars \cup InvalidBars), MaxRows)
    /\ pc = "loaded"
    /\ row = <<>>
    /\ NoRun

\* Larger panels of two instruments.
InitSummary ==
    /\ columns = required_columns
    /\ date_dtype = "datetime64"
    /\ df \in Panels(RowsOf({MAIN_CODE, STAR_CODE}, Dates, CoarseBars), MaxSummaryRows)
    /\ pc = "loaded"
    /\ row = <<>>
    /\ NoRun

\* Panels of two instruments over three dates, the dates as strings or as
\* Timestamps.
InitOrder ==
    /\ columns = required_columns
    /\ \/ /\ date_dtype = "datetime64"
          /\ df \in Panels(RowsOf({MAIN_CODE, STAR_CODE}, MoreDates, CoarseBars),
                           MaxRows)
       \/ /\ date_dtype = "object"
          /\ df \in Panels(RowsOf({MAIN_CODE, STAR_CODE}, MoreDateStrings, CoarseBars),
                           MaxRows)
    /\ pc = "loaded"
    /\ row = <<>>
    /\ NoRun

\* One row with a previous close, of any identifier.
InitBoard ==
    /\ columns = required_columns
    /\ date_dtype = "datetime64"
    /\ df = <<>>
    /\ pc = "row"
    /\ row \in {[ts_code |-> s, prev_close |-> <<p>>] :
                   s \in Identifiers(MaxIdLen), p \in {995, 2000, 5000}}
    /\ NoRun

Targets ==
    {[type |-> "Timestamp", value |-> d] : d \in MoreDates}
        \cup {[type |-> "str", value |-> s] : s \in MoreDateStrings}

Next == Main

NextQuery == \E t \in Targets : AnalyzeSpecificDate(t)

NextBoard == CalcLimitPrice

Spec == Init /\ [][Next]_vars

SpecBars == InitBars /\ [][Next]_vars

SpecLoad == InitLoad /\ [][Next]_vars

SpecSummary == InitSummary /\ [][Next]_vars

SpecOrder == InitOrder /\ [][Next]_vars

SpecQuery == Init /\ [][NextQuery]_vars

SpecBoard == InitBoard /\ [][NextBoard]_vars

-----------------------------------------------------------------------------
(* Vocabulary of the properties. *)

RowsIn(frame) == {frame[i] : i \in 1..Len(frame)}

\* the events of an event table, without the rows' index labels and pass-through
\* prices
EventSet(events) ==
    {[ts_code |-> e.ts_code, trade_date |-> e.trade_date,
      zt_price |-> e.zt_price, limit_type |-> e.limit_type] : e \in RowsIn(events)}

Abs(x) == IF x < 0 THEN -x ELSE x

\* an identifier that has an S or s directly followed by a T or t
Excluded(ts_code) ==
    \E i \in 1..(Len(ts_code) - 1) :
        ts_code[i] \in {"S", "s"} /\ ts_code[i + 1] \in {"T", "t"}

DigitValue ==
    [c \in {"0", "1", "2", "3", "4", "5", "6", "7", "8", "9"} |-> Ord[c] - 1]

\* the number written by the first three characters of an identifier, -1 if they
\* are not three digits
Prefix3(ts_code) ==
    IF Len(ts_code) < 3 \/ \E i \in 1..3 : ts_code[i] \notin DOMAIN DigitValue THEN -1
    ELSE 100 * DigitValue[ts_code[1]] + 10 * DigitValue[ts_code[2]]
             + DigitValue[ts_code[3]]

\* the board of the specification's table: STAR is kcb, CHINEXT is cyb, NEEQ is bse
BoardOf(ts_code) ==
    LET p == Prefix3(ts_code)
    IN  IF p \in {688, 689} THEN [board |-> "kcb", rate |-> 20]
        ELSE IF p = 300 THEN [board |-> "cyb", rate |-> 20]
        ELSE IF p = 430 \/ p \in 831..839 \/ p \in 870..874
             THEN [board |-> "bse", rate |-> 30]
        ELSE [board |-> "main", rate |-> 10]

\* b comes before r in the chronological series of r's instrument (bars of one
\* date in the order of the panel)
Precedes(b, r) ==
    /\ b.ts_code = r.ts_code
    /\ \/ b.trade_date < r.trade_date
       \/ b.trade_date = r.trade_date /\ b.index < r.index

IsFirstBar(r, frame) == \A b \in RowsIn(frame) : ~Precedes(b, r)

UniqueKeys(frame) ==
    \A i, j \in 1..Len(frame) :
        frame[i].ts_code = frame[j].ts_code /\ frame[i].trade_date = frame[j].trade_date
            => i = j

\* limit is prev * (1 + rate / 100) rounded to a whole cent
RoundedTo2(limit, prev, rate) == Abs(100 * limit - prev * (100 + rate)) <= 50

-----------------------------------------------------------------------------
(* C1: every bar with a defined limit price is SEALED exactly when close >=     *)
(* limit_price (whatever its high), BROKEN exactly when high >= limit_price >   *)
(* close, and absent from the result exactly when high and close are both below *)
(* it; after a close of 10.00 on the main board the limit is 11.00.             *)

EventsOf(r) == {e \in RowsIn(limit_stocks) : e.index = r.index}

C1_Classification ==
    pc = "reported" =>
        \A r \in RowsIn(stock_data) :
            ~isna(r.limit_price) =>
                LET lp == r.limit_price[1]
                    ev == EventsOf(r)
                IN  /\ Cardinality(ev) <= 1
                    /\ (r.close >= lp) <=> (\E e \in ev : e.limit_type = "SEALED")
                    /\ (r.high >= lp /\ r.close < lp)
                           <=> (\E e \in ev : e.limit_type = "BROKEN")
                    /\ (r.high < lp /\ r.close < lp) <=> (ev = {})
                    /\ \A e \in ev : e.zt_price = r.limit_price
                    /\ r.prev_close = <<1000>> => lp = 1100

\* a bar after a close of 10.00 that is sealed at 11.00 although its high is below
\* the limit price
C1_Witness ==
    /\ pc = "reported"
    /\ UniqueKeys(df)
    /\ \E e \in RowsIn(limit_stocks) :
           e.limit_type = "SEALED" /\ e.close = 1100 /\ e.zt_price = <<1100>>
               /\ e.high < 1100

\* The other two cases of the example: a bar that touches 11.00 and closes at
\* 10.95 is broken, a bar whose high is 10.99 has no event.
BrokenAt1100 ==
    /\ pc = "reported"
    /\ UniqueKeys(df)
    /\ \E e \in RowsIn(limit_stocks) :
           e.limit_type = "BROKEN" /\ e.high = 1100 /\ e.close = 1095
               /\ e.zt_price = <<1100>>

NoEventAt1099 ==
    /\ pc = "reported"
    /\ UniqueKeys(df)
    /\ \E r \in RowsIn(stock_data) :
           r.limit_price = <<1100>> /\ r.high = 1099 /\ EventsOf(r) = {}

\* The half 10.945 rounded either way: a bar at 10.94 is sealed or has no event.
HalfRoundedDown ==
    /\ pc = "reported"
    /\ \E e \in RowsIn(limit_stocks) : e.zt_price = <<1094>> /\ e.close = 1094

HalfRoundedUp ==
    /\ pc = "reported"
    /\ \E r \in RowsIn(stock_data) :
           r.limit_price = <<1095>> /\ r.close = 1094 /\ EventsOf(r) = {}

-----------------------------------------------------------------------------
(* C2: every identifier gets exactly one board and rate: prefix 688 or 689 kcb  *)
(* (STAR) at 20%, 300 cyb (CHINEXT) at 20%, 430, 831..839 or 870..874 bse       *)
(* (NEEQ) at 30%, anything else, the empty identifier and the identifiers with  *)
(* letters included, main at 10%.                                               *)

C2_Board ==
    pc = "priced" =>
        /\ row_out.stock_type = BoardOf(row.ts_code).board
        /\ row_out.limit_rate = BoardOf(row.ts_code).rate
        /\ ~isna(row_out.limit_price)
        /\ RoundedTo2(row_out.limit_price[1], row.prev_close[1],
                      BoardOf(row.ts_code).rate)

C2_Witness ==
    /\ pc = "priced"
    /\ row.ts_code = <<"8", "7", "4">>
    /\ row_out.stock_type = "bse"
    /\ row_out.limit_rate = 30

-----------------------------------------------------------------------------
(* C3: every bar that is not the first of its instrument gets limit_price =     *)
(* prev_close * (1 + rate) rounded to 2 decimals, prev_close being the close of *)
(* the same instrument on the immediately preceding trade_date and rate its     *)
(* board's rate.                                                                *)

\* the bars of r's instrument on the last trade_date before r's
PrecedingDateBars(r, frame) ==
    {b \in RowsIn(frame) :
        /\ b.ts_code = r.ts_code
        /\ b.trade_date < r.trade_date
        /\ \A x \in RowsIn(frame) :
               x.ts_code = r.ts_code /\ x.trade_date < r.trade_date
                   => x.trade_date <= b.trade_date}

LimitPriceRule(r) ==
    /\ \E b \in PrecedingDateBars(r, df) : r.prev_close = <<b.close>>
    /\ ~isna(r.limit_price)
    /\ RoundedTo2(r.limit_price[1], r.prev_close[1], BoardOf(r.ts_code).rate)

C3_LimitPrice ==
    /\ pc = "reported" =>
           \A r \in RowsIn(stock_data) : ~IsFirstBar(r, df) => LimitPriceRule(r)
    /\ calc_limit_price([ts_code |-> STAR_CODE, prev_close |-> <<5000>>], <<>>) = <<6000>>
    /\ calc_limit_price([ts_code |-> NEEQ_CODE, prev_close |-> <<2000>>], <<>>) = <<2600>>

\* The rule on the panels that have no (ts_code, trade_date) twice.
LimitPriceOnUniqueKeys ==
    pc = "reported" /\ UniqueKeys(df) =>
        \A r \in RowsIn(stock_data) : ~IsFirstBar(r, df) => LimitPriceRule(r)

-----------------------------------------------------------------------------
(* C4: the first chronological bar of every instrument of a panel has no        *)
(* prev_close and no limit price and is in no row of the result, whatever its   *)
(* prices.                                                                      *)

C4_FirstBar ==
    pc = "reported" =>
        \A r \in RowsIn(df) :
            IsFirstBar(r, df) =>
                /\ \A e \in RowsIn(limit_stocks) : e.index # r.index
                /\ \A x \in RowsIn(stock_data) :
                       x.index = r.index => isna(x.prev_close) /\ isna(x.limit_price)

\* two instruments with a bar each before the first bar of the second, which
\* touches 12.00, and a later bar of that instrument with a limit price
C4_Witness ==
    /\ pc = "reported"
    /\ UniqueKeys(df)
    /\ Len(stock_data) = 3
    /\ stock_data[1].ts_code # stock_data[2].ts_code
    /\ IsFirstBar(stock_data[2], df)
    /\ stock_data[2].high = 1200
    /\ ~isna(stock_data[3].limit_price)

-----------------------------------------------------------------------------
(* C5: analyze_specific_date(df, d) returns the rows of identify_limit_stocks   *)
(* (df) whose trade_date is d.                                                  *)

C5_QueryIsFilter ==
    pc = "queried" =>
        \E tie \in TieChoices(df) :
            /\ \A t \in DOMAIN tie_up : tie[t] = tie_up[t]
            /\ EventSet(limit_stocks) =
                   {e \in EventSet(identify_limit_stocks(df, tie)) :
                       e.trade_date = target_date[1]}

\* What the query does return: nothing, every instrument having one bar at most in
\* the rows of one date.
QueryIsEmpty == pc = "queried" /\ UniqueKeys(df) => limit_stocks = <<>>

-----------------------------------------------------------------------------
(* C6: a panel in which an instrument has two bars of one trade_date is         *)
(* rejected: no prev_close is computed from it and nothing is classified or     *)
(* reported.                                                                    *)

C6_DuplicateRejected ==
    ~UniqueKeys(df) =>
        /\ pc # "reported"
        /\ stock_data = <<>>
        /\ limit_stocks = <<>>
        /\ written = {}

-----------------------------------------------------------------------------
(* C7: on a panel without a repeated (ts_code, trade_date) the set of events    *)
(* (ts_code, trade_date, limit price, type) is the same for every order of the  *)
(* rows, the reverse order included.                                            *)

\* the rows of frame in the order f, as a panel loaded in that order
Reordered(frame, f) ==
    [k \in 1..Len(frame) |->
        [index |-> k - 1, ts_code |-> frame[f[k]].ts_code,
         trade_date |-> frame[f[k]].trade_date,
         open |-> frame[f[k]].open, high |-> frame[f[k]].high,
         low |-> frame[f[k]].low, close |-> frame[f[k]].close]]

C7_OrderIndependent ==
    pc = "reported" /\ UniqueKeys(df) =>
        \A f \in Permutations(1..Len(df)) :
            EventSet(identify_limit_stocks(Reordered(df, f), tie_up))
                = EventSet(limit_stocks)

\* one instrument given in reverse date order, with an event
C7_Witness ==
    /\ pc = "reported"
    /\ Len(df) = 3
    /\ df[1].ts_code = df[2].ts_code /\ df[2].ts_code = df[3].ts_code
    /\ df[1].trade_date > df[2].trade_date /\ df[2].trade_date > df[3].trade_date
    /\ limit_stocks # <<>>

-----------------------------------------------------------------------------
(* C8: no row of an identifier that contains ST, in either case, is in the      *)
(* result, and the result is the same when rows of such identifiers are         *)
(* removed from the panel.                                                      *)

\* frame without the rows at the positions gone
Without(frame, gone) ==
    LET keepers == {k \in 1..Len(frame) : k \notin gone}
        nth(i) == CHOOSE k \in keepers : Cardinality({x \in keepers : x < k}) = i - 1
    IN  [i \in 1..Cardinality(keepers) |-> frame[nth(i)]]

C8_Exclusion ==
    pc = "reported" =>
        /\ \A e \in RowsIn(limit_stocks) : ~Excluded(e.ts_code)
        /\ \A gone \in SUBSET {k \in 1..Len(df) : Excluded(df[k].ts_code)} :
               EventSet(identify_limit_stocks(Without(df, gone), tie_up))
                   = EventSet(limit_stocks)

\* an ST instrument whose second bar closes at the 10% limit of its first
C8_Witness ==
    /\ pc = "reported"
    /\ \E a, b \in RowsIn(df) :
           /\ Excluded(a.ts_code)
           /\ b.ts_code = a.ts_code
           /\ a.trade_date < b.trade_date
           /\ a.close = 1000
           /\ b.close = 1100
    /\ \A r \in RowsIn(df) : Excluded(r.ts_code) => r \notin RowsIn(stock_data)

-----------------------------------------------------------------------------
(* C9: every row of the daily summary has the three counts: the SEALED events   *)
(* of its date, the BROKEN events of its date and their sum, a type without     *)
(* events on that date, or on any date, counting 0.                             *)

CountOn(d, t) ==
    Cardinality({e \in RowsIn(limit_stocks) : e.trade_date = d /\ e.limit_type = t})

C9_DailySummary ==
    pc = "reported" =>
        /\ \A s \in RowsIn(daily_stats) :
               /\ DOMAIN s.counts = {"SEALED", "BROKEN", "total"}
               /\ s.counts["SEALED"] = CountOn(s.trade_date, "SEALED")
               /\ s.counts["BROKEN"] = CountOn(s.trade_date, "BROKEN")
               /\ s.counts["total"] = s.counts["SEALED"] + s.counts["BROKEN"]
        /\ \A e \in RowsIn(limit_stocks) :
               \E s \in RowsIn(daily_stats) : s.trade_date = e.trade_date
        /\ \A i, j \in 1..Len(daily_stats) :
               daily_stats[i].trade_date = daily_stats[j].trade_date => i = j

\* a day with a sealed and a broken event
C9_Witness ==
    /\ pc = "reported"
    /\ UniqueKeys(df)
    /\ \E s \in RowsIn(daily_stats) :
           s.counts["SEALED"] = 1 /\ s.counts["BROKEN"] = 1 /\ s.counts["total"] = 2

\* a panel without any broken event: the column is added by lines 111-112
NoBrokenColumn ==
    /\ pc = "reported"
    /\ \A e \in RowsIn(limit_stocks) : e.limit_type = "SEALED"
    /\ \E s \in RowsIn(daily_stats) : s.counts["SEALED"] = 1 /\ s.counts["BROKEN"] = 0

-----------------------------------------------------------------------------
(* C10: a batch with an invalid row (a missing required field, a non-positive   *)
(* price) fails as a whole: no event table and no daily summary is produced.    *)

ValidRow(r) == r.open > 0 /\ r.high > 0 /\ r.low > 0 /\ r.close > 0

ValidBatch ==
    /\ required_columns \subseteq columns
    /\ \A r \in RowsIn(df) : ValidRow(r)

C10_InvalidBatchFails ==
    ~ValidBatch =>
        /\ pc # "reported"
        /\ limit_stocks = <<>>
        /\ daily_stats = <<>>
        /\ written = {}

\* What main does check: a panel without a required column is not processed.
MissingColumnStops ==
    ~(required_columns \subseteq columns) =>
        pc \in {"loaded", "rejected"} /\ written = {} /\ limit_stocks = <<>>

====
